---- MODULE Spec2Model ----
(***************************************************************************)
(* A model of the nmap MCP server (src/index.ts): the run_nmap_scan tool   *)
(* handler, the NmapScanSchema validation, the construction of the nmap    *)
(* command line in runNmapScan, and the child process behind execAsync.    *)
(*                                                                         *)
(* Text is modelled by TLA+ strings (\o is concatenation, SubSeq a slice). *)
(* A JSON value is a record [type, s, i, half]: a string carries s, a      *)
(* number is i (half = FALSE) or i + 0.5 (half = TRUE), and a field that   *)
(* the request leaves out is the value Undefined.                          *)
(***************************************************************************)
EXTENDS Integers, Sequences, FiniteSets, TLC

VARIABLES
    pc,        \* pc[r]: "idle" (not yet received), "awaiting" (suspended at the await of execAsync), "done"
    req,       \* req[r]: request.params of the call, [name, args]
    cfg,       \* cfg[r]: parsed.data, the configuration handed to runNmapScan
    command,   \* command[r]: the command string runNmapScan built
    child,     \* child[r]: index in procs of the process r awaits (0: none)
    procs,     \* every child process exec has launched, in launch order
    results,   \* results[r]: the result envelopes the handler returned for r
    log        \* what console.error wrote, in order

vars == <<pc, req, cfg, command, child, procs, results, log>>

-----------------------------------------------------------------------------
(* Bounds of the model *)

\* Number of tool calls in flight
NReq == 2

\* Numeric timing values the requests try: -1, -0.5, 0, ..., MaxTimingProbe + 0.5
MaxTimingProbe == 6

Requests == 1..NReq

-----------------------------------------------------------------------------
(* JSON values *)

Undefined == [type |-> "undefined", s |-> "", i |-> 0, half |-> FALSE]
Null == [type |-> "null", s |-> "", i |-> 0, half |-> FALSE]
Str(s) == [type |-> "string", s |-> s, i |-> 0, half |-> FALSE]
Num(i, half) == [type |-> "number", s |-> "", i |-> i, half |-> half]

\* JavaScript truthiness of a string-or-undefined value: if (ports), if (additionalFlags)
Truthy(v) == v.type = "string" /\ v.s # ""

\* Number to string as a template literal does it: 3 -> "3", 2.5 -> "2.5", -0.5 -> "-0.5"
NumberToString(n) ==
    IF ~n.half THEN ToString(n.i)
    ELSE IF n.i >= 0 THEN ToString(n.i) \o ".5"
    ELSE "-" \o ToString(-n.i - 1) \o ".5"

\* n >= k and n <= k for a number n = i or i + 0.5 and an integer k
NumGe(n, k) == n.i >= k
NumLe(n, k) == n.i < k \/ (n.i = k /\ ~n.half)

-----------------------------------------------------------------------------
(* Text helpers *)

StartsWith(s, p) == Len(p) <= Len(s) /\ SubSeq(s, 1, Len(p)) = p
Includes(s, p) == \E k \in 0..(Len(s) - Len(p)) : SubSeq(s, k + 1, k + Len(p)) = p
\* The text of s after its first n characters
Drop(s, n) == SubSeq(s, n + 1, Len(s))

RECURSIVE Join(_)
Join(names) ==
    IF names = <<>> THEN ""
    ELSE IF Len(names) = 1 THEN names[1]
    ELSE names[1] \o "," \o Join(Tail(names))

-----------------------------------------------------------------------------
(* NmapScanSchema *)

TimingMin == 0
TimingMax == 5
TimingDefault == 3
ScanTypes == {"quick", "full", "version"}
ScanTypeDefault == "quick"

\* z.string()
TargetOk(v) == v.type = "string"
\* z.string().optional()
OptionalStringOk(v) == v.type \in {"string", "undefined"}
\* z.enum(['quick', 'full', 'version']).default('quick')
ScanTypeOk(v) == v.type = "undefined" \/ (v.type = "string" /\ v.s \in ScanTypes)
\* z.number().min(0).max(5).default(3)
TimingOk(v) ==
    v.type = "undefined" \/ (v.type = "number" /\ NumGe(v, TimingMin) /\ NumLe(v, TimingMax))

FieldOk(args, f) ==
    CASE f = "target" -> TargetOk(args.target)
      [] f = "ports" -> OptionalStringOk(args.ports)
      [] f = "scanType" -> ScanTypeOk(args.scanType)
      [] f = "timing" -> TimingOk(args.timing)
      [] f = "additionalFlags" -> OptionalStringOk(args.additionalFlags)

SchemaFields == <<"target", "ports", "scanType", "timing", "additionalFlags">>

\* NmapScanSchema.safeParse(args): [success, data, error]; error lists every
\* field whose check failed (the text of the ZodError, reduced to the paths).
NmapScanSchema_safeParse(args) ==
    IF args.kind # "object"
    THEN [success |-> FALSE, data |-> args, error |-> "Required"]
    ELSE LET bad(f) == ~FieldOk(args, f)
             issues == SelectSeq(SchemaFields, bad)
         IN  IF issues # <<>>
             THEN [success |-> FALSE, data |-> args, error |-> Join(issues)]
             ELSE [success |-> TRUE,
                   data |-> [args EXCEPT
                       !.scanType = IF @.type = "undefined" THEN Str(ScanTypeDefault) ELSE @,
                       !.timing = IF @.type = "undefined" THEN Num(TimingDefault, FALSE) ELSE @],
                   error |-> ""]

-----------------------------------------------------------------------------
(* runNmapScan: the command string *)

\* switch (scanType)
ScanTypeFlag(scanType) ==
    CASE scanType = "quick" -> " -F"
      [] scanType = "full" -> " -p-"
      [] scanType = "version" -> " -sV"
      [] OTHER -> ""

\* A variant that appends additionalFlags before the port flag
runNmapScan_command_flagsFirst(params) ==
    LET c0 == "nmap -T" \o NumberToString(params.timing)
        c1 == c0 \o ScanTypeFlag(params.scanType.s)
        c2 == IF Truthy(params.additionalFlags) THEN c1 \o " " \o params.additionalFlags.s ELSE c1
        c3 == IF Truthy(params.ports) THEN c2 \o " -p" \o params.ports.s ELSE c2
    IN  c3 \o " " \o params.target.s

\* A variant that tests ports !== undefined instead of its truthiness
runNmapScan_command_portsDefined(params) ==
    LET c0 == "nmap -T" \o NumberToString(params.timing)
        c1 == c0 \o ScanTypeFlag(params.scanType.s)
        c2 == IF params.ports.type # "undefined" THEN c1 \o " -p" \o params.ports.s ELSE c1
        c3 == IF Truthy(params.additionalFlags) THEN c2 \o " " \o params.additionalFlags.s ELSE c2
    IN  c3 \o " " \o params.target.s

\* The command runNmapScan hands to execAsync
runNmapScan_command(params) ==
    LET c0 == "nmap -T" \o NumberToString(params.timing)
        c1 == c0 \o ScanTypeFlag(params.scanType.s)
        c2 == IF Truthy(params.ports) THEN c1 \o " -p" \o params.ports.s ELSE c1
        c3 == IF Truthy(params.additionalFlags) THEN c2 \o " " \o params.additionalFlags.s ELSE c2
    IN  c3 \o " " \o params.target.s

-----------------------------------------------------------------------------
(* Inputs *)

ToolName == "run_nmap_scan"

Args(target, ports, scanType, timing, additionalFlags) ==
    [kind |-> "object", target |-> target, ports |-> ports, scanType |-> scanType,
     timing |-> timing, additionalFlags |-> additionalFlags]

\* A call without arguments
NoArgs ==
    [kind |-> "undefined", target |-> Undefined, ports |-> Undefined, scanType |-> Undefined,
     timing |-> Undefined, additionalFlags |-> Undefined]

\* The calls the concurrent specification tries
Payloads ==
    { [name |-> "other_tool", args |-> Args(Undefined, Undefined, Undefined, Undefined, Undefined)],
      [name |-> ToolName, args |-> Args(Undefined, Undefined, Str("bogus"), Undefined, Undefined)],
      [name |-> ToolName, args |-> Args(Str("h"), Undefined, Undefined, Num(6, FALSE), Undefined)],
      [name |-> ToolName, args |-> Args(Str("h"), Undefined, Undefined, Undefined, Undefined)],
      [name |-> ToolName, args |-> Args(Str("h"), Str("80"), Str("version"), Num(5, FALSE), Str("-sS"))] }

\* The values the compile specification tries for each field
TargetValues == {Undefined, Num(7, FALSE), Str(""), Str("h")}
PortsValues == {Undefined, Null, Str(""), Str("22-80")}
ScanTypeValues == {Undefined, Num(1, FALSE), Str("quick"), Str("full"), Str("version"), Str("bogus")}
TimingValues ==
    {Undefined, Str("3")} \cup {Num(i, h) : i \in -1..MaxTimingProbe, h \in BOOLEAN}
FlagsValues == {Undefined, Null, Str(""), Str("-sS --open")}

AllArgs ==
    {NoArgs} \cup
    { Args(t, p, s, tm, a) : t \in TargetValues, p \in PortsValues, s \in ScanTypeValues,
                             tm \in TimingValues, a \in FlagsValues }

\* What a child process can write and how it can end
StdoutTexts == {"", "PORT STATE"}
StderrTexts == {"", "WARNING"}
ExitCodes == {0, 1}
SpawnFailure == "spawn /bin/sh ENOENT"
CommandFailed == "Command failed"

-----------------------------------------------------------------------------
(* State *)

NoRequest == [name |-> "", args |-> NoArgs]

Envelope(isError, text) == [isError |-> isError, text |-> text]

Process(r, cmd) ==
    [owner |-> r, command |-> cmd, status |-> "running", code |-> 0,
     stdout |-> "", stderr |-> "", message |-> ""]

Init ==
    /\ pc = [r \in Requests |-> "idle"]
    /\ req = [r \in Requests |-> NoRequest]
    /\ cfg = [r \in Requests |-> NoArgs]
    /\ command = [r \in Requests |-> ""]
    /\ child = [r \in Requests |-> 0]
    /\ procs = <<>>
    /\ results = [r \in Requests |-> <<>>]
    /\ log = <<>>

-----------------------------------------------------------------------------
(* The CallToolRequestSchema handler, up to the await of execAsync *)

\* A variant whose catch block returns the error text without the error flag
ReturnError_notFlagged(r, p, message) ==
    /\ pc' = [pc EXCEPT ![r] = "done"]
    /\ req' = [req EXCEPT ![r] = p]
    /\ results' = [results EXCEPT ![r] = Append(@, Envelope(FALSE, "Error: " \o message))]
    /\ UNCHANGED <<cfg, command, child, procs, log>>

\* catch (error): the error becomes an error result
ReturnError(r, p, message) ==
    /\ pc' = [pc EXCEPT ![r] = "done"]
    /\ req' = [req EXCEPT ![r] = p]
    /\ results' = [results EXCEPT ![r] = Append(@, Envelope(TRUE, "Error: " \o message))]
    /\ UNCHANGED <<cfg, command, child, procs, log>>

\* A variant that reuses the process of an earlier call with the same command
LaunchScan_cached(r, p, data) ==
    LET same == {pid \in DOMAIN procs : procs[pid].command = runNmapScan_command(data)}
    IN  /\ pc' = [pc EXCEPT ![r] = "awaiting"]
        /\ req' = [req EXCEPT ![r] = p]
        /\ cfg' = [cfg EXCEPT ![r] = data]
        /\ command' = [command EXCEPT ![r] = runNmapScan_command(data)]
        /\ IF same # {}
           THEN /\ child' = [child EXCEPT ![r] = CHOOSE pid \in same : TRUE]
                /\ procs' = procs
           ELSE /\ child' = [child EXCEPT ![r] = Len(procs) + 1]
                /\ procs' = Append(procs, Process(r, runNmapScan_command(data)))
        /\ UNCHANGED <<results, log>>

\* runNmapScan(parsed.data) up to the await: the command is built and handed to exec
LaunchScan(r, p, data) ==
    /\ pc' = [pc EXCEPT ![r] = "awaiting"]
    /\ req' = [req EXCEPT ![r] = p]
    /\ cfg' = [cfg EXCEPT ![r] = data]
    /\ command' = [command EXCEPT ![r] = runNmapScan_command(data)]
    /\ procs' = Append(procs, Process(r, runNmapScan_command(data)))
    /\ child' = [child EXCEPT ![r] = Len(procs) + 1]
    /\ UNCHANGED <<results, log>>

\* A variant that does not test parsed.success
HandleCall_ignoresParse(r, p) ==
    /\ pc[r] = "idle"
    /\ IF p.name = ToolName
       THEN LaunchScan(r, p, NmapScanSchema_safeParse(p.args).data)
       ELSE ReturnError(r, p, "Unknown tool: " \o p.name)

HandleCall(r, p) ==
    /\ pc[r] = "idle"
    /\ IF p.name = ToolName
       THEN LET parsed == NmapScanSchema_safeParse(p.args)
            IN  IF ~parsed.success
                THEN ReturnError(r, p, "Invalid arguments for run_nmap_scan: " \o parsed.error)
                ELSE LaunchScan(r, p, parsed.data)
       ELSE ReturnError(r, p, "Unknown tool: " \o p.name)

CallTool(r) == \E p \in Payloads : HandleCall(r, p)

-----------------------------------------------------------------------------
(* The child process behind execAsync *)

\* The process runs and exits; exec reports a non-zero exit code as an error
ProcessExit(pid) ==
    /\ procs[pid].status = "running"
    /\ \E code \in ExitCodes, out \in StdoutTexts, err \in StderrTexts :
          procs' = [procs EXCEPT ![pid] =
                       [@ EXCEPT !.status = "exited", !.code = code, !.stdout = out,
                                 !.stderr = err,
                                 !.message = IF code = 0 THEN "" ELSE CommandFailed]]
    /\ UNCHANGED <<pc, req, cfg, command, child, results, log>>

\* The process could not be started (its record stays as the one attempt made)
ProcessSpawnFails(pid) ==
    /\ procs[pid].status = "running"
    /\ procs' = [procs EXCEPT ![pid] = [@ EXCEPT !.status = "failed", !.message = SpawnFailure]]
    /\ UNCHANGED <<pc, req, cfg, command, child, results, log>>

\* Whether the promise of execAsync is fulfilled (otherwise it is rejected)
Fulfilled(proc) == proc.status = "exited" /\ proc.code = 0

-----------------------------------------------------------------------------
(* The handler after the await *)

\* A variant that returns stderr after stdout instead of logging it
ReturnOutput_withStderr(r, proc) ==
    /\ log' = log
    /\ results' = [results EXCEPT ![r] = Append(@, Envelope(FALSE, proc.stdout \o proc.stderr))]
    /\ pc' = [pc EXCEPT ![r] = "done"]
    /\ UNCHANGED <<req, cfg, command, child, procs>>

\* try { ... return stdout }: stderr goes to console.error, stdout is the result
ReturnOutput(r, proc) ==
    /\ log' = IF proc.stderr # "" THEN Append(log, "Nmap stderr: " \o proc.stderr) ELSE log
    /\ results' = [results EXCEPT ![r] = Append(@, Envelope(FALSE, proc.stdout))]
    /\ pc' = [pc EXCEPT ![r] = "done"]
    /\ UNCHANGED <<req, cfg, command, child, procs>>

\* A variant whose catch in runNmapScan returns what the process wrote
ReturnScanFailure_partial(r, proc) ==
    /\ results' = [results EXCEPT ![r] = Append(@, Envelope(FALSE, proc.stdout))]
    /\ pc' = [pc EXCEPT ![r] = "done"]
    /\ UNCHANGED <<req, cfg, command, child, procs, log>>

\* catch in runNmapScan, then catch in the handler
ReturnScanFailure(r, proc) ==
    /\ results' = [results EXCEPT ![r] =
                      Append(@, Envelope(TRUE, "Error: " \o "Nmap scan failed: " \o proc.message))]
    /\ pc' = [pc EXCEPT ![r] = "done"]
    /\ UNCHANGED <<req, cfg, command, child, procs, log>>

\* A variant with a timeout: the call gives up while the process still runs
ExecSettles_timeout(r) ==
    /\ pc[r] = "awaiting"
    /\ IF Fulfilled(procs[child[r]])
       THEN ReturnOutput(r, procs[child[r]])
       ELSE ReturnScanFailure(r, procs[child[r]])

ExecSettles(r) ==
    /\ pc[r] = "awaiting"
    /\ procs[child[r]].status # "running"
    /\ IF Fulfilled(procs[child[r]])
       THEN ReturnOutput(r, procs[child[r]])
       ELSE ReturnScanFailure(r, procs[child[r]])

-----------------------------------------------------------------------------
(* Specifications *)

Next ==
    \/ \E r \in Requests : CallTool(r)
    \/ \E pid \in DOMAIN procs : ProcessExit(pid)
    \/ \E pid \in DOMAIN procs : ProcessSpawnFails(pid)
    \/ \E r \in Requests : ExecSettles(r)

Spec == Init /\ [][Next]_vars

\* The event loop resumes a handler whose promise has settled
LiveSpec == Spec /\ \A r \in Requests : WF_vars(ExecSettles(r))

\* A single call, with every combination of argument values
ToolNames == {ToolName, "other_tool"}

CallToolAny == \E n \in ToolNames, a \in AllArgs : HandleCall(1, [name |-> n, args |-> a])

NextSingle ==
    \/ CallToolAny
    \/ \E pid \in DOMAIN procs : ProcessExit(pid)
    \/ \E pid \in DOMAIN procs : ProcessSpawnFails(pid)
    \/ ExecSettles(1)

SpecSingle == Init /\ [][NextSingle]_vars

-----------------------------------------------------------------------------
(* Vocabulary of the properties *)

Received(r) == pc[r] # "idle"
Done(r) == pc[r] = "done"
Launched(r) == child[r] # 0
ProcessesOf(r) == {pid \in DOMAIN procs : procs[pid].owner = r}
IsInteger(v) == v.type = "number" /\ ~v.half

\* The words of a command, joined by single spaces
RECURSIVE Words(_)
Words(ws) ==
    IF ws = <<>> THEN ""
    ELSE IF Len(ws) = 1 THEN ws[1]
    ELSE ws[1] \o " " \o Words(Tail(ws))

StrategyWord(scanType) ==
    CASE scanType = "quick" -> "-F"
      [] scanType = "full" -> "-p-"
      [] scanType = "version" -> "-sV"

-----------------------------------------------------------------------------
(* C1: validation failures *)

\* The failures the claim lists: a missing or non-string target, a scanType
\* outside the enumeration, a timing outside [0, 5]
ListedFailure(args) ==
    \/ args.target.type # "string"
    \/ args.scanType.type # "undefined" /\ ~(args.scanType.type = "string" /\ args.scanType.s \in ScanTypes)
    \/ args.timing.type = "number" /\ ~(NumGe(args.timing, TimingMin) /\ NumLe(args.timing, TimingMax))

FailsValidation(args) == ~NmapScanSchema_safeParse(args).success \/ ListedFailure(args)

\* C1: a run_nmap_scan call whose payload fails validation has returned an
\* error result (isError = TRUE) and no child process exists for it, in any
\* state after the call was received.
C1_InvalidIsErrorNoProcess ==
    \A r \in Requests :
        (Received(r) /\ req[r].name = ToolName /\ FailsValidation(req[r].args))
        => /\ Done(r)
           /\ Len(results[r]) = 1
           /\ results[r][1].isError
           /\ ~Launched(r)
           /\ ProcessesOf(r) = {}

C1_Witness ==
    /\ Done(1)
    /\ req[1].name = ToolName
    /\ req[1].args.scanType = Str("bogus")
    /\ req[1].args.target = Undefined
    /\ Len(results[1]) = 1
    /\ results[1][1].isError
    /\ procs = <<>>

-----------------------------------------------------------------------------
(* C2: the order of the command *)

\* The command as the claim describes it: the program name, -T<timing>, one
\* strategy flag, the port flag when hasPorts, additionalFlags when hasFlags,
\* the target last.
ClaimedCommand(c, hasPorts, hasFlags) ==
    Words(<<"nmap", "-T" \o NumberToString(c.timing), StrategyWord(c.scanType.s)>>
          \o (IF hasPorts THEN <<"-p" \o c.ports.s>> ELSE <<>>)
          \o (IF hasFlags THEN <<c.additionalFlags.s>> ELSE <<>>)
          \o <<c.target.s>>)

\* C2 (as amended): the command of a launched scan, which is also the command
\* of its process, is the claimed sequence, where the port flag appears when
\* ports is a non-empty string and additionalFlags when it is a non-empty string.
C2_CommandOrder ==
    Launched(1) =>
        /\ command[1] = ClaimedCommand(cfg[1], Truthy(cfg[1].ports), Truthy(cfg[1].additionalFlags))
        /\ procs[child[1]].command = command[1]

\* C2 (as stated): the port flag appears whenever ports is given and
\* additionalFlags whenever it is given.
C2_Original ==
    Launched(1) =>
        /\ command[1] = ClaimedCommand(cfg[1], cfg[1].ports.type = "string",
                                       cfg[1].additionalFlags.type = "string")
        /\ procs[child[1]].command = command[1]

C2_Witness ==
    /\ Launched(1)
    /\ cfg[1].ports = Str("22-80")
    /\ cfg[1].additionalFlags = Str("-sS --open")
    /\ command[1] = "nmap -T5 -sV -p22-80 -sS --open h"

-----------------------------------------------------------------------------
(* C3: timing *)

IntegerInRange(v) == IsInteger(v) /\ TimingMin <= v.i /\ v.i <= TimingMax

\* C3: a launched scan has an integer timing in [0, 5] (3 when the request
\* omits it) and its command carries -T with that integer; a call with any
\* other timing is rejected and launches nothing.
C3_TimingIntegerInRange ==
    /\ Launched(1) =>
          /\ IntegerInRange(cfg[1].timing)
          /\ req[1].args.timing.type = "undefined" => cfg[1].timing = Num(TimingDefault, FALSE)
          /\ StartsWith(command[1], "nmap -T" \o ToString(cfg[1].timing.i) \o " ")
    /\ (Received(1) /\ req[1].name = ToolName /\ req[1].args.kind = "object"
        /\ req[1].args.timing.type # "undefined" /\ ~IntegerInRange(req[1].args.timing))
       => (Done(1) /\ ~Launched(1) /\ procs = <<>>)

-----------------------------------------------------------------------------
(* C4: target *)

\* C4: a launched scan has a non-empty string as target; a call whose target
\* is the empty string is rejected and launches nothing.
C4_TargetNonEmpty ==
    /\ Launched(1) => (cfg[1].target.type = "string" /\ cfg[1].target.s # "")
    /\ (Received(1) /\ req[1].name = ToolName /\ req[1].args.target = Str(""))
       => (Done(1) /\ results[1][1].isError /\ ~Launched(1) /\ procs = <<>>)

-----------------------------------------------------------------------------
(* C5: the port flag *)

\* The command up to and including the strategy flag
CommandHead(c) == "nmap -T" \o NumberToString(c.timing) \o " " \o StrategyWord(c.scanType.s)

\* What follows the port flag, or the strategy flag when there is no port flag
CommandTail(c) ==
    (IF c.additionalFlags.type = "string" /\ c.additionalFlags.s # ""
     THEN " " \o c.additionalFlags.s ELSE "") \o " " \o c.target.s

\* The command carries " -p<value>" right after the strategy flag
HasPortFlag(cmd, c, value) ==
    /\ StartsWith(cmd, CommandHead(c))
    /\ Drop(cmd, Len(CommandHead(c))) = " -p" \o value \o CommandTail(c)

\* Nothing stands between the strategy flag and additionalFlags or the target
HasNoPortFlag(cmd, c) ==
    /\ StartsWith(cmd, CommandHead(c))
    /\ Drop(cmd, Len(CommandHead(c))) = CommandTail(c)

\* C5 (as amended): the command of a launched scan carries the port flag,
\* -p followed by exactly the value of ports, when ports is a non-empty
\* string, and no port flag when ports is omitted or the empty string.
C5_PortFlagIffNonEmpty ==
    Launched(1) =>
        IF req[1].args.ports.type = "string" /\ req[1].args.ports.s # ""
        THEN HasPortFlag(command[1], cfg[1], req[1].args.ports.s)
        ELSE HasNoPortFlag(command[1], cfg[1])

\* C5 (as stated): the port flag is there for any string value of ports.
C5_Original ==
    Launched(1) =>
        IF req[1].args.ports.type = "string"
        THEN HasPortFlag(command[1], cfg[1], req[1].args.ports.s)
        ELSE HasNoPortFlag(command[1], cfg[1])

C5_Witness ==
    /\ Launched(1)
    /\ req[1].args.ports = Str("22-80")
    /\ req[1].args.additionalFlags = Undefined
    /\ command[1] = "nmap -T3 -F -p22-80 h"

-----------------------------------------------------------------------------
(* C6: stdout is the result, stderr is only logged *)

Logged(text) == \E k \in DOMAIN log : log[k] = "Nmap stderr: " \o text

SuccessWithStdoutOnly(r) ==
    /\ results[r] = <<Envelope(FALSE, procs[child[r]].stdout)>>
    /\ ~Includes(results[r][1].text, procs[child[r]].stderr)
    /\ Logged(procs[child[r]].stderr)

WroteBoth(proc) == proc.status = "exited" /\ proc.stdout # "" /\ proc.stderr # ""

\* C6 (as amended): when the process of a finished call has exited with
\* status 0 having written to both stdout and stderr, the one result is a
\* success whose text is exactly the stdout text; the stderr text is in the
\* log and not in the result.
C6_StdoutOnlyOnCleanExit ==
    \A r \in Requests :
        (Done(r) /\ Launched(r) /\ WroteBoth(procs[child[r]]) /\ procs[child[r]].code = 0)
        => SuccessWithStdoutOnly(r)

\* C6 (as stated): the same for every process that ran and exited.
C6_Original ==
    \A r \in Requests :
        (Done(r) /\ Launched(r) /\ WroteBoth(procs[child[r]])) => SuccessWithStdoutOnly(r)

C6_Witness ==
    /\ Done(1)
    /\ Launched(1)
    /\ procs[child[1]].code = 0
    /\ procs[child[1]].stdout = "PORT STATE"
    /\ procs[child[1]].stderr = "WARNING"
    /\ results[1] = <<Envelope(FALSE, "PORT STATE")>>
    /\ log = <<"Nmap stderr: WARNING">>

-----------------------------------------------------------------------------
(* C7: a failed invocation *)

NoOutputReturned(r) ==
    procs[child[r]].stdout # "" => ~Includes(results[r][1].text, procs[child[r]].stdout)

\* C7 (as amended): when the invocation of a finished call was reported as
\* failed, the one result is an error whose text is "Error: " followed by
\* "Nmap scan failed: " and the message of the failure, and it holds none of
\* the output the process wrote.
C7_FailureIsPrefixedError ==
    \A r \in Requests :
        (Done(r) /\ Launched(r) /\ ~Fulfilled(procs[child[r]]))
        => /\ results[r] =
                  <<Envelope(TRUE, "Error: Nmap scan failed: " \o procs[child[r]].message)>>
           /\ NoOutputReturned(r)

\* C7 (as stated): the text is "Nmap scan failed: " followed by the message.
C7_Original ==
    \A r \in Requests :
        (Done(r) /\ Launched(r) /\ ~Fulfilled(procs[child[r]]))
        => /\ results[r] = <<Envelope(TRUE, "Nmap scan failed: " \o procs[child[r]].message)>>
           /\ NoOutputReturned(r)

C7_Witness ==
    /\ Done(1)
    /\ Launched(1)
    /\ procs[child[1]].status = "failed"
    /\ results[1] = <<Envelope(TRUE, "Error: Nmap scan failed: spawn /bin/sh ENOENT")>>

-----------------------------------------------------------------------------
(* C8: one result envelope per call *)

Accepted(r) == Received(r) /\ req[r].name = ToolName /\ NmapScanSchema_safeParse(req[r].args).success

\* C8: a call has no result before it completes and exactly one after; an
\* unknown name gives an error that names it, without validation and without
\* a process; a validation failure and a failed execution give errors that
\* describe them; a success is returned only for run_nmap_scan with valid
\* arguments and an execution that did not fail.
C8_OneFlaggedEnvelope ==
    \A r \in Requests :
        /\ ~Done(r) => results[r] = <<>>
        /\ Done(r) =>
              /\ Len(results[r]) = 1
              /\ results[r][1].isError \in BOOLEAN
              /\ req[r].name # ToolName =>
                    /\ results[r][1].isError
                    /\ Includes(results[r][1].text, req[r].name)
                    /\ ~Includes(results[r][1].text, "Invalid arguments")
                    /\ ~Launched(r) /\ ProcessesOf(r) = {}
              /\ (req[r].name = ToolName /\ ~NmapScanSchema_safeParse(req[r].args).success) =>
                    /\ results[r][1].isError
                    /\ Includes(results[r][1].text, "Invalid arguments for run_nmap_scan")
              /\ (Launched(r) /\ ~Fulfilled(procs[child[r]])) =>
                    /\ results[r][1].isError
                    /\ Includes(results[r][1].text, procs[child[r]].message)
              /\ ~results[r][1].isError =>
                    (Accepted(r) /\ Launched(r) /\ Fulfilled(procs[child[r]]))

C8_Witness ==
    /\ Done(1) /\ Done(2)
    /\ req[1].name = "other_tool"
    /\ results[1] = <<Envelope(TRUE, "Error: Unknown tool: other_tool")>>
    /\ req[2].name = ToolName
    /\ ~results[2][1].isError

-----------------------------------------------------------------------------
(* C9: one process per accepted call *)

PerRequest(r) == <<pc[r], req[r], cfg[r], command[r], child[r], results[r]>>

OneProcessEach ==
    /\ \A r \in Requests :
          IF Accepted(r)
          THEN ProcessesOf(r) = {child[r]} /\ procs[child[r]].command = command[r]
          ELSE ProcessesOf(r) = {} /\ ~Launched(r)
    /\ Len(procs) = Cardinality({r \in Requests : Accepted(r)})
    /\ \A r \in Requests : (Done(r) /\ Launched(r)) =>
          IF Fulfilled(procs[child[r]])
          THEN results[r][1].text = procs[child[r]].stdout
          ELSE Includes(results[r][1].text, procs[child[r]].message)

\* C9: every accepted call has exactly one process, its own, also after a
\* failure (no retry) and also when another call had the same input (no
\* caching); its result is that of its own process; and a step that changes
\* what one call holds changes nothing another call holds.
C9_OneProcessPerCall ==
    /\ []OneProcessEach
    /\ [][\A r, q \in Requests :
             (r # q /\ PerRequest(r)' # PerRequest(r)) => PerRequest(q)' = PerRequest(q)]_vars

C9_Witness ==
    /\ Done(1) /\ Done(2)
    /\ req[1] = req[2]
    /\ Len(procs) = 2
    /\ child[1] # child[2]
    /\ procs[child[1]].status = "failed"
    /\ ~results[2][1].isError
    /\ results[2][1].text = "PORT STATE"

-----------------------------------------------------------------------------
(* C10: the await of the child process is the only suspension point *)

Settled(r) == Launched(r) /\ procs[child[r]].status # "running"

\* C10: a call that is rejected returns in the step that receives it, with no
\* process; a call is suspended only with a process of its own and no result;
\* a call with a process has a result only once the process has exited or
\* failed, and then it eventually has one.
C10_SuspendsOnlyOnProcess ==
    /\ [](\A r \in Requests :
             /\ pc[r] = "awaiting" => (Launched(r) /\ results[r] = <<>>)
             /\ (Done(r) /\ Launched(r)) => Settled(r))
    /\ [][\A r \in Requests :
             (pc[r] = "idle" /\ pc'[r] # "idle" /\ ~Accepted(r)')
             => (pc'[r] = "done" /\ Len(results'[r]) = 1 /\ procs' = procs)]_vars
    /\ \A r \in Requests : (pc[r] = "awaiting" /\ Settled(r)) ~> Done(r)

C10_Witness ==
    /\ pc[1] = "awaiting"
    /\ procs[child[1]].status = "running"
    /\ Done(2)
    /\ Launched(2)
    /\ child[2] > child[1]

====
